---- MODULE Spec2Model ----
(***************************************************************************)
(* Model of the OCR masking pipeline (src/src/ocr_mask.py, patterns.py,    *)
(* main.py): the tiling coordinator _image_to_data_tiled, the detector     *)
(* detect_sensitive_regions, the redactor apply_redactions, the PatternSet *)
(* constructors and the batch driver main.                                 *)
(***************************************************************************)
EXTENDS Integers, Sequences, FiniteSets, TLC

VARIABLES
    \* ---- _image_to_data_tiled (ocr_mask.py:28-79) ----
    imgH,            \* h of image_bgr.shape[:2]
    imgW,            \* w of image_bgr.shape[:2]
    max_tile_height, \* parameter max_tile_height
    overlap,         \* parameter overlap
    y,               \* local y (start row of the current strip)
    tile_idx,        \* local tile_idx
    step,            \* local step
    merged,          \* local merged, as a sequence of token records
    pcT,             \* position in the function
    returned,        \* what the call gave its caller
    calls,           \* log of the oracle calls made (history of the run)
    \* ---- detect_sensitive_regions (ocr_mask.py:115-156) ----
    detected,        \* its arguments, line_map and result once it has run
    \* ---- apply_redactions (ocr_mask.py:159-167) ----
    image_bgr,       \* the caller's pixel buffer
    redactions,      \* the list of RedactionBoxes passed in
    mask_color,      \* cfg.mask_color
    out,             \* local out
    ri,              \* how many boxes the for loop has gone through
    pcR,             \* position in the function
    \* ---- main (main.py:32-80) ----
    args,            \* the parsed command line and the files its paths name
    pattern_set,     \* local pattern_set
    extracted,       \* local extracted: the image ids, in extraction order
    replacements,    \* local replacements: image id -> masked path
    report,          \* local report
    workbook,        \* the output workbook on disk
    pcM              \* position in main

varsT == <<imgH, imgW, max_tile_height, overlap, y, tile_idx, step, merged,
           pcT, returned, calls, detected>>

varsR == <<image_bgr, redactions, mask_color, out, ri, pcR>>

varsM == <<args, pattern_set, extracted, replacements, report, workbook, pcM>>

vars == <<varsT, varsR, varsM>>

-----------------------------------------------------------------------------
(* Bounds of the model.                                                    *)
MaxTiles == 3        \* images need at most MaxTiles strips
MaxStream == 2       \* records the oracle returns for one image, all calls together
Side == 2            \* the redactor's image is (Side + 1) x Side pixels
MaxBoxes == 2        \* RedactionBoxes in one apply_redactions call
MaxItems == 3        \* header names or patterns in one list
MaxImages == 2       \* images extracted from the workbook

(* Program constants.                                                      *)
MinStep == 1000      \* ocr_mask.py:45  step = max(step, 1000)

(* Inputs the tiling parameters are drawn from.                            *)
TileHeights == {500, 1040}
Overlaps == {0, 40, 600}
ImageWidths == {20}
ImageHeights ==
    { hh \in {1} \cup {m * k + d : m \in TileHeights, k \in 1..MaxTiles, d \in {0, 1}} :
        hh <= MaxTiles * MinStep }

Min(a, b) == IF a <= b THEN a ELSE b
Max(a, b) == IF a >= b THEN a ELSE b

-----------------------------------------------------------------------------
(* The OCR oracle (pytesseract.image_to_data): for a region of rw x rh     *)
(* pixels it returns word records in region-local coordinates, numbering   *)
(* blocks, paragraphs and lines from 1 in every call, or it raises.        *)
Token(b, p, l, left, top, width, height, conf, text) ==
    [block_num |-> b, par_num |-> p, line_num |-> l,
     left |-> left, top |-> top, width |-> width, height |-> height,
     conf |-> conf, text |-> text]

OracleTokens(rw, rh) ==
    { Token(1, 1, 1, 0, 0, rw, 1, 90, "Authorization:"),
      Token(1, 1, 2, rw - 1, rh - 1, 1, 1, 90, "abc") }

RECURSIVE SeqsUpTo(_, _)
SeqsUpTo(S, n) ==
    IF n = 0 THEN {<<>>}
    ELSE LET shorter == SeqsUpTo(S, n - 1)
         IN  shorter \cup {Append(s, e) : s \in {t \in shorter : Len(t) = n - 1}, e \in S}

OracleOutputs(rw, rh, room) == SeqsUpTo(OracleTokens(rw, rh), room)

-----------------------------------------------------------------------------
(* PatternSet (patterns.py).  A pattern source string is kept by its       *)
(* shape: rf"\b{re.escape(h)}\b[:\-\s]*.*" for a header name h, the        *)
(* Bearer-token pattern, or any other regex text.  Two sources are the     *)
(* same string exactly when these records are equal.                       *)
HeaderPattern(h) == [kind |-> "header", name |-> h]
BearerPattern == [kind |-> "bearer", name |-> ""]
RawPattern(src) == [kind |-> "raw", name |-> src]

DEFAULT_SENSITIVE_PATTERNS ==
    << HeaderPattern("Authorization"),
       HeaderPattern("Auth"),
       BearerPattern,
       HeaderPattern("X-API-Key"),
       RawPattern("\\bAPI\\s*Key\\b[:\\-\\s]*.*"),
       HeaderPattern("Host"),
       HeaderPattern("Cookie"),
       HeaderPattern("Set-Cookie"),
       HeaderPattern("X-Auth-Token") >>

(* str.strip() and str.lower() on the header names the model uses.         *)
StripTable == [t \in {" Host ", " "} |-> IF t = " Host " THEN "Host" ELSE ""]
Strip(s) == IF s \in DOMAIN StripTable THEN StripTable[s] ELSE s

LowerTable ==
    [s \in {"Authorization", "AUTH", "Auth", "Host", "Bearer"} |->
        CASE s = "Authorization" -> "authorization"
          [] s = "AUTH" -> "auth"
          [] s = "Auth" -> "auth"
          [] s = "Host" -> "host"
          [] s = "Bearer" -> "bearer"]
Lower(s) == IF s \in DOMAIN LowerTable THEN LowerTable[s] ELSE s

(* re.compile(p, flags=re.IGNORECASE): the compiled pattern keeps p.       *)
Compile(p) == [pattern |-> p, flags |-> "IGNORECASE"]

(* PatternSet.from_strings (lines 24-26): every string compiled, in order. *)
from_strings(pats) == [patterns |-> [i \in 1..Len(pats) |-> Compile(pats[i])]]

(* PatternSet.default (lines 28-30).                                       *)
default == from_strings(DEFAULT_SENSITIVE_PATTERNS)

(* Lines 44-54 of from_headers: the pattern strings for the header names.  *)
RECURSIVE HeaderPats(_)
HeaderPats(headers) ==
    IF headers = <<>> THEN <<>>
    ELSE LET h == Strip(Head(headers))
             rest == HeaderPats(Tail(headers))
         IN  IF h = "" THEN rest
             ELSE IF Lower(h) \in {"authorization", "auth"}
                  THEN <<HeaderPattern(h), BearerPattern>> \o rest
                  ELSE <<HeaderPattern(h)>> \o rest

(* Lines 57-63: drop every string already seen, keeping the first.         *)
RECURSIVE Dedup(_, _)
Dedup(pats, seen) ==
    IF pats = <<>> THEN <<>>
    ELSE IF Head(pats) \in seen
         THEN Dedup(Tail(pats), seen)
         ELSE <<Head(pats)>> \o Dedup(Tail(pats), seen \cup {Head(pats)})

(* PatternSet.from_headers (lines 42-64).                                  *)
from_headers(headers, include_defaults) ==
    LET pats == HeaderPats(headers)
        all == IF include_defaults THEN pats \o DEFAULT_SENSITIVE_PATTERNS ELSE pats
    IN  from_strings(Dedup(all, {}))

(* A line of text is the sequence of its words (joined by one space).  The *)
(* header name a word carries at word boundaries, lower-cased, and whether *)
(* a word can be the value after "Bearer".                                 *)
WordTable ==
    [w \in {"Authorization:", "Bearer", "abc", "Host:"} |->
        CASE w = "Authorization:" -> "authorization"
          [] w = "Bearer" -> "bearer"
          [] w = "abc" -> "abc"
          [] w = "Host:" -> "host"]
WordName(w) == IF w \in DOMAIN WordTable THEN WordTable[w] ELSE w
IsTokenWord(w) == w \in {"abc", "Bearer"}

(* Whether the text src, used as a regex of its own, is found in word w,   *)
(* ignoring case.                                                          *)
RawOccurs(src, w) == w = "Authorization:" /\ src \in {"Authorization", "auth"}

(* The Bearer pattern from word i on: "Bearer", white space, a token; the  *)
(* next match is looked for after the token.                               *)
RECURSIVE BearerStarts(_, _)
BearerStarts(words, i) ==
    IF i >= Len(words) THEN <<>>
    ELSE IF WordName(words[i]) = "bearer" /\ IsTokenWord(words[i + 1])
         THEN <<i>> \o BearerStarts(words, i + 2)
         ELSE BearerStarts(words, i + 1)

RECURSIVE RawStarts(_, _, _)
RawStarts(src, words, i) ==
    IF i > Len(words) THEN <<>>
    ELSE (IF RawOccurs(src, words[i]) \/ (src = " " /\ i < Len(words))
          THEN <<i>> ELSE <<>>) \o RawStarts(src, words, i + 1)

(* Where compiled pattern p matches in the line (the word each match       *)
(* starts in), in order: p.finditer(text), case-insensitive.  A header     *)
(* pattern runs to the end of the line, so it matches at most once.        *)
MatchStarts(p, words) ==
    CASE p.pattern.kind = "header" ->
            LET hits == {i \in 1..Len(words) : WordName(words[i]) = Lower(p.pattern.name)}
            IN  IF hits = {} THEN <<>> ELSE <<CHOOSE i \in hits : \A j \in hits : i <= j>>
      [] p.pattern.kind = "bearer" -> BearerStarts(words, 1)
      [] OTHER -> RawStarts(p.pattern.name, words, 1)

(* PatternSet.find_matches (lines 88-93): (pattern, span) for every match  *)
(* of every pattern, in pattern order.                                     *)
RECURSIVE MatchesFrom(_, _, _)
MatchesFrom(ps, k, words) ==
    IF k > Len(ps.patterns) THEN <<>>
    ELSE LET starts == MatchStarts(ps.patterns[k], words)
         IN  [i \in 1..Len(starts) |-> [pattern |-> ps.patterns[k], span |-> starts[i]]]
             \o MatchesFrom(ps, k + 1, words)

find_matches(ps, words) == MatchesFrom(ps, 1, words)

-----------------------------------------------------------------------------
(* scale = min(1.0, max_tile_height / max(1, tile.shape[0])) * 0.9, kept   *)
(* as the fraction ScaleNum / ScaleDen.                                    *)
ScaleNum(mth, th) == IF mth >= Max(1, th) THEN 9 ELSE 9 * mth
ScaleDen(mth, th) == IF mth >= Max(1, th) THEN 10 ELSE 10 * Max(1, th)

(* int(dim * scale): truncation of the product.                            *)
ScaledDim(dim, mth, th) == (dim * ScaleNum(mth, th)) \div ScaleDen(mth, th)

(* int(v * (full / max(1, small))): the quotient full / small is a float,  *)
(* so where v * full / small is a whole number r the product may land just *)
(* below it and truncate to r - 1; elsewhere it truncates to the floor.    *)
RescaleValues(v, full, small) ==
    LET d == Max(1, small)
        q == (v * full) \div d
    IN  IF v > 0 /\ (v * full) % d = 0 THEN {q - 1, q} ELSE {q}

(* The rescaled copies of one token record (lines 60-64).                  *)
RescaleToken(t, fullW, smallW, fullH, smallH) ==
    { [t EXCEPT !.left = l, !.top = tp, !.width = wd, !.height = ht] :
        l \in RescaleValues(t.left, fullW, smallW),
        tp \in RescaleValues(t.top, fullH, smallH),
        wd \in RescaleValues(t.width, fullW, smallW),
        ht \in RescaleValues(t.height, fullH, smallH) }

RECURSIVE RescaleData(_, _, _, _, _)
RescaleData(data, fullW, smallW, fullH, smallH) ==
    IF data = <<>> THEN {<<>>}
    ELSE { <<t>> \o rest :
             t \in RescaleToken(Head(data), fullW, smallW, fullH, smallH),
             rest \in RescaleData(Tail(data), fullW, smallW, fullH, smallH) }

(* Lines 68-73: every record of data is appended to merged, top moved by y. *)
MutOffsetToken(t, yy) == [t EXCEPT !.top = t.top + yy, !.left = t.left + yy]

OffsetToken(t, yy) == [t EXCEPT !.top = t.top + yy]

MergeTile(m, data, yy) ==
    m \o [i \in 1..Len(data) |-> OffsetToken(data[i], yy)]

(* Line 47 and line 44-45.                                                 *)
TileEnd(yy) == Min(yy + max_tile_height, imgH)
MutStepOf(mth, ov) == mth - ov

StepOf(mth, ov) == Max(mth - ov, MinStep)

NoReturn == [kind |-> "none", data |-> <<>>]
Value(d) == [kind |-> "value", data |-> d]
Raised(e) == [kind |-> "raised", data |-> <<>>, exc |-> e]

CallRec(yy, y2, rw, rh, retry, outcome, data) ==
    [y |-> yy, y2 |-> y2, rw |-> rw, rh |-> rh, retry |-> retry,
     outcome |-> outcome, data |-> data]

-----------------------------------------------------------------------------
(* detect_sensitive_regions, lines 120-156, on the stream data.            *)
Paddings == {0, 4}                     \* cfg.mask_padding (types.py:41 defaults to 4)
IsBlank(text) == text \in {"", " "}    \* not text or text.strip() == ''

(* Line 134: line_id.                                                      *)
LineKey(t) == <<t.block_num, t.par_num, t.line_num>>

MutKept(t) == ~IsBlank(t.text)

(* Lines 124-133: blank words and words with conf < 0 are passed over.     *)
Kept(t) == ~IsBlank(t.text) /\ t.conf >= 0

(* Lines 134-138: line_map as the list of its entries in insertion order.  *)
AddWord(lm, t) ==
    IF \E k \in 1..Len(lm) : lm[k].line_id = LineKey(t)
    THEN [k \in 1..Len(lm) |->
            IF lm[k].line_id = LineKey(t)
            THEN [lm[k] EXCEPT !.words = Append(@, t.text),
                               !.boxes = Append(@, <<t.left, t.top, t.width, t.height>>)]
            ELSE lm[k]]
    ELSE Append(lm, [line_id |-> LineKey(t), words |-> <<t.text>>,
                     boxes |-> << <<t.left, t.top, t.width, t.height>> >>])

RECURSIVE BuildLineMap(_, _)
BuildLineMap(data, lm) ==
    IF data = <<>> THEN lm
    ELSE BuildLineMap(Tail(data), IF Kept(Head(data)) THEN AddWord(lm, Head(data)) ELSE lm)

SetMin(S) == CHOOSE m \in S : \A x \in S : m <= x
SetMax(S) == CHOOSE m \in S : \A x \in S : m >= x

RedactionBox(x, yy, w, h, label) == [x |-> x, y |-> yy, w |-> w, h |-> h, label |-> label]

(* Lines 146-154: the padded rectangle around all the words of the line.   *)
LineBox(boxes, pad) ==
    LET x1 == Max(SetMin({boxes[i][1] : i \in 1..Len(boxes)}) - pad, 0)
        y1 == Max(SetMin({boxes[i][2] : i \in 1..Len(boxes)}) - pad, 0)
        x2 == SetMax({boxes[i][1] + boxes[i][3] : i \in 1..Len(boxes)}) + pad
        y2 == SetMax({boxes[i][2] + boxes[i][4] : i \in 1..Len(boxes)}) + pad
    IN  RedactionBox(x1, y1, x2 - x1, y2 - y1, "sensitive")

(* Lines 140-156: one box for every line some pattern matches.             *)
RECURSIVE RegionsFrom(_, _, _, _)
RegionsFrom(lm, k, ps, pad) ==
    IF k > Len(lm) THEN <<>>
    ELSE (IF find_matches(ps, lm[k].words) # <<>>
          THEN <<LineBox(lm[k].boxes, pad)>>
          ELSE <<>>) \o RegionsFrom(lm, k + 1, ps, pad)

NotDetected == [state |-> "idle"]

InitTiling ==
    /\ imgH \in ImageHeights
    /\ imgW \in ImageWidths
    /\ max_tile_height \in TileHeights
    /\ overlap \in Overlaps
    /\ y = 0
    /\ tile_idx = 0
    /\ step = 0
    /\ merged = <<>>
    /\ pcT = "start"
    /\ returned = NoReturn
    /\ calls = <<>>
    /\ detected = NotDetected

unchangedInputs ==
    UNCHANGED <<imgH, imgW, max_tile_height, overlap, detected, varsR, varsM>>

(* Lines 33-34: a short image goes to the oracle whole, outside any try.   *)
WholeImageOk ==
    /\ pcT = "start"
    /\ imgH <= max_tile_height
    /\ \E data \in OracleOutputs(imgW, imgH, MaxStream) :
        /\ calls' = Append(calls, CallRec(0, imgH, imgW, imgH, FALSE, "ok", data))
        /\ returned' = Value(data)
    /\ pcT' = "done"
    /\ UNCHANGED <<y, tile_idx, step, merged>>
    /\ unchangedInputs

WholeImageRaises ==
    /\ pcT = "start"
    /\ imgH <= max_tile_height
    /\ \E e \in {"TesseractError", "OtherError"} :
        /\ calls' = Append(calls, CallRec(0, imgH, imgW, imgH, FALSE, e, <<>>))
        /\ returned' = Raised(e)
    /\ pcT' = "raised"
    /\ UNCHANGED <<y, tile_idx, step, merged>>
    /\ unchangedInputs

(* Lines 36-45.                                                            *)
BeginTiling ==
    /\ pcT = "start"
    /\ imgH > max_tile_height
    /\ y' = 0
    /\ tile_idx' = 0
    /\ step' = StepOf(max_tile_height, overlap)
    /\ merged' = <<>>
    /\ pcT' = "loop"
    /\ UNCHANGED <<returned, calls>>
    /\ unchangedInputs

(* Lines 68-77 after data is in hand: merge, count, break or advance.      *)
AfterTile(data) ==
    /\ merged' = MergeTile(merged, data, y)
    /\ tile_idx' = tile_idx + 1
    /\ IF TileEnd(y) >= imgH
       THEN /\ pcT' = "done"
            /\ returned' = Value(merged')
            /\ y' = y
       ELSE /\ pcT' = "loop"
            /\ returned' = returned
            /\ y' = y + step

(* Lines 46-50: the oracle answers for the strip [y, y2).                  *)
TileOk ==
    /\ pcT = "loop"
    /\ y < imgH
    /\ \E data \in OracleOutputs(imgW, TileEnd(y) - y, MaxStream - Len(merged)) :
        /\ calls' = Append(calls,
                           CallRec(y, TileEnd(y), imgW, TileEnd(y) - y, FALSE, "ok", data))
        /\ AfterTile(data)
    /\ UNCHANGED step
    /\ unchangedInputs

(* Line 46: the while condition fails, line 79 returns merged.             *)
LoopExit ==
    /\ pcT = "loop"
    /\ y >= imgH
    /\ pcT' = "done"
    /\ returned' = Value(merged)
    /\ UNCHANGED <<y, tile_idx, step, merged, calls>>
    /\ unchangedInputs

(* Line 50 raises something other than TesseractError: not caught.         *)
TileRaisesOther ==
    /\ pcT = "loop"
    /\ y < imgH
    /\ calls' = Append(calls,
                       CallRec(y, TileEnd(y), imgW, TileEnd(y) - y, FALSE, "OtherError", <<>>))
    /\ returned' = Raised("OtherError")
    /\ pcT' = "raised"
    /\ UNCHANGED <<y, tile_idx, step, merged>>
    /\ unchangedInputs

(* Lines 51-55, 65-66: TesseractError is caught; the strip is resized to   *)
(* (int(w*scale), int(h*scale)); cv2.resize raises on an empty size, and a  *)
(* scale of 1.0 or more re-raises.                                         *)
TileRaisesTesseract ==
    /\ pcT = "loop"
    /\ y < imgH
    /\ LET th == TileEnd(y) - y
           sw == ScaledDim(imgW, max_tile_height, th)
           sh == ScaledDim(th, max_tile_height, th)
       IN  /\ calls' = Append(calls,
                              CallRec(y, TileEnd(y), imgW, th, FALSE, "TesseractError", <<>>))
           /\ IF ScaleNum(max_tile_height, th) < ScaleDen(max_tile_height, th)
              THEN IF sw >= 1 /\ sh >= 1
                   THEN /\ pcT' = "retry"
                        /\ returned' = returned
                   ELSE /\ pcT' = "raised"
                        /\ returned' = Raised("cv2.error")
              ELSE /\ pcT' = "raised"
                   /\ returned' = Raised("TesseractError")
    /\ UNCHANGED <<y, tile_idx, step, merged>>
    /\ unchangedInputs

(* Lines 56-64: the second call, on tile_small, outside any try; its       *)
(* boxes are scaled back by sx, sy and the strip is merged as any other.   *)
RetryOk ==
    /\ pcT = "retry"
    /\ LET th == TileEnd(y) - y
           sw == ScaledDim(imgW, max_tile_height, th)
           sh == ScaledDim(th, max_tile_height, th)
       IN  \E data \in OracleOutputs(sw, sh, MaxStream - Len(merged)) :
             /\ calls' = Append(calls, CallRec(y, TileEnd(y), sw, sh, TRUE, "ok", data))
             /\ \E scaled \in RescaleData(data, imgW, sw, th, sh) : AfterTile(scaled)
    /\ UNCHANGED step
    /\ unchangedInputs

MutRetryRaises ==
    /\ pcT = "retry"
    /\ calls' = Append(calls, CallRec(y, TileEnd(y), (9 * imgW) \div 10,
                                      (9 * (TileEnd(y) - y)) \div 10, TRUE,
                                      "TesseractError", <<>>))
    /\ returned' = Value(merged)
    /\ pcT' = "done"
    /\ UNCHANGED <<y, tile_idx, step, merged>>
    /\ unchangedInputs

RetryRaises ==
    /\ pcT = "retry"
    /\ LET th == TileEnd(y) - y
           sw == ScaledDim(imgW, max_tile_height, th)
           sh == ScaledDim(th, max_tile_height, th)
       IN  \E e \in {"TesseractError", "OtherError"} :
             /\ calls' = Append(calls, CallRec(y, TileEnd(y), sw, sh, TRUE, e, <<>>))
             /\ returned' = Raised(e)
    /\ pcT' = "raised"
    /\ UNCHANGED <<y, tile_idx, step, merged>>
    /\ unchangedInputs

(* detect_sensitive_regions once line 117 has its data: the line map and  *)
(* the redactions, for the patterns and the padding it was called with.    *)
Detect ==
    /\ pcT = "done"
    /\ detected = NotDetected
    /\ \E pad \in Paddings, ps \in {default, from_headers(<<>>, FALSE)} :
         LET lm == BuildLineMap(returned.data, <<>>)
         IN  detected' = [state |-> "returned", mask_padding |-> pad, patterns |-> ps,
                          line_map |-> lm, redactions |-> RegionsFrom(lm, 1, ps, pad)]
    /\ UNCHANGED <<imgH, imgW, max_tile_height, overlap, y, tile_idx, step, merged,
                   pcT, returned, calls, varsR, varsM>>

NextTiling ==
    \/ Detect
    \/ WholeImageOk
    \/ WholeImageRaises
    \/ BeginTiling
    \/ TileOk
    \/ LoopExit
    \/ TileRaisesOther
    \/ TileRaisesTesseract
    \/ RetryOk
    \/ RetryRaises


-----------------------------------------------------------------------------
(* Reading the run back from the call log.                                 *)
IsFirstAttempt(c) == ~c.retry
IsOk(c) == c.outcome = "ok"

Strips == SelectSeq(calls, IsFirstAttempt)
OkCalls == SelectSeq(calls, IsOk)

RECURSIVE TokensBefore(_)
TokensBefore(k) ==
    IF k <= 1 THEN 0 ELSE TokensBefore(k - 1) + Len(OkCalls[k - 1].data)

(* The answered call that the i-th record of merged came from, and the     *)
(* record as the oracle returned it.                                       *)
CallOf(i) ==
    CHOOSE k \in 1..Len(OkCalls) :
        TokensBefore(k) < i /\ i <= TokensBefore(k) + Len(OkCalls[k].data)
RawOf(i) == OkCalls[CallOf(i)].data[i - TokensBefore(CallOf(i))]

(* The records the answered calls returned, in call order, each with the   *)
(* call it came from.                                                      *)
RECURSIVE Sources(_)
Sources(ok) ==
    IF ok = <<>> THEN <<>>
    ELSE LET c == Head(ok)
         IN  [i \in 1..Len(c.data) |-> [call |-> c, raw |-> c.data[i]]] \o Sources(Tail(ok))

Tiled == imgH > max_tile_height

(* C1: for h > H_max, H_max >= 1 and 0 <= O < H_max, the strips start at    *)
(* 0, (H_max - O), 2*(H_max - O), ..., consecutive strips overlap by       *)
(* exactly O rows, and every row 0..h-1 lies inside some submitted strip.  *)
C1_StripsCoverEveryRow ==
    (pcT = "done" /\ Tiled /\ max_tile_height >= 1
        /\ 0 <= overlap /\ overlap < max_tile_height) =>
        /\ \A k \in 1..Len(Strips) : Strips[k].y = (k - 1) * (max_tile_height - overlap)
        /\ \A k \in 1..(Len(Strips) - 1) : Strips[k].y2 - Strips[k + 1].y = overlap
        /\ \A r \in 0..(imgH - 1) :
              \E k \in 1..Len(Strips) : Strips[k].y <= r /\ r < Strips[k].y2

(* C2: in the merged stream of a tiled image, two tokens that come from    *)
(* different strips never share a lineKey (stated for the strip layouts    *)
(* where the step is H_max - O, so that it does not rest on C1).           *)
C2_NoLineKeySharedAcrossStrips ==
    (Tiled /\ max_tile_height - overlap >= MinStep) =>
        \A i, j \in 1..Len(merged) :
            OkCalls[CallOf(i)].y # OkCalls[CallOf(j)].y
                => LineKey(merged[i]) # LineKey(merged[j])

(* C4 as claimed: every region submitted, the whole image of a short image *)
(* included, is retried once on a downscaled copy after the oracle fails   *)
(* with a TesseractError.                                                  *)
RetryFollows(i) ==
    \/ i = Len(calls) /\ pcT = "retry"
    \/ /\ i < Len(calls)
       /\ calls[i + 1].retry
       /\ calls[i + 1].y = calls[i].y
       /\ calls[i + 1].rw = (9 * calls[i].rw) \div 10
       /\ calls[i + 1].rh = (9 * calls[i].rh) \div 10

C4_EveryRegionRetriedOnce ==
    \A i \in 1..Len(calls) :
        (~calls[i].retry /\ calls[i].outcome = "TesseractError"
            /\ (9 * calls[i].rw) \div 10 >= 1 /\ (9 * calls[i].rh) \div 10 >= 1)
            => RetryFollows(i)

(* C4 as amended: a strip of a tall image whose 0.9-downscaled copy is not *)
(* empty is retried exactly once after a TesseractError; the retry's       *)
(* tokens are merged; a failed retry, any other failure, and any failure   *)
(* of the single call made for a short image, end the call with the        *)
(* exception and no tokens, whatever earlier strips gave.                  *)
C4_StripRetriedOnceElseFatal ==
    /\ \A i \in 1..Len(calls) :
        /\ (Tiled /\ ~calls[i].retry /\ calls[i].outcome = "TesseractError"
              /\ (9 * calls[i].rw) \div 10 >= 1 /\ (9 * calls[i].rh) \div 10 >= 1)
              => RetryFollows(i)
        /\ calls[i].retry =>
              /\ i > 1
              /\ ~calls[i - 1].retry
              /\ calls[i - 1].outcome = "TesseractError"
              /\ calls[i - 1].y = calls[i].y
        /\ calls[i].outcome # "ok" =>
              \/ Tiled /\ ~calls[i].retry /\ calls[i].outcome = "TesseractError"
                    /\ RetryFollows(i)
              \/ /\ i = Len(calls)
                 /\ pcT = "raised"
                 /\ returned.kind = "raised"
                 /\ returned.data = <<>>
    /\ Tiled => Len(merged) = TokensBefore(Len(OkCalls) + 1)
    /\ ~Tiled => Len(calls) <= 1 /\ \A i \in 1..Len(calls) : ~calls[i].retry
    /\ pcT = "raised" <=> returned.kind = "raised"

(* C4 witness: the retry of a later strip failed after an earlier strip    *)
(* had already put tokens into merged.                                     *)
C4_Witness ==
    /\ pcT = "raised"
    /\ Len(calls) >= 3
    /\ calls[Len(calls)].retry
    /\ calls[Len(calls)].outcome = "TesseractError"
    /\ Len(merged) > 0
    /\ returned.data = <<>>

(* The strip a call was made for: its height and width before any resize.  *)
StripH(c) == c.y2 - c.y

(* r is int(v * full / small) up to the float's last bit.                  *)
TruncatedScale(r, v, full, small) ==
    r * small <= v * full /\ v * full <= (r + 1) * small

SameText(m, t) ==
    /\ LineKey(m) = LineKey(t)
    /\ m.conf = t.conf
    /\ m.text = t.text

(* C10 as claimed: merged is the strips' tokens in strip order, top is the *)
(* strip offset plus the (rescaled) local top, and left and width are the  *)
(* oracle's own strip-local values.                                        *)
C10_LeftWidthAsReturned ==
    /\ (Tiled /\ pcT = "done") =>
        /\ Len(merged) = TokensBefore(Len(OkCalls) + 1)
        /\ \A i \in 1..Len(merged) :
            LET c == OkCalls[CallOf(i)]
                t == RawOf(i)
            IN  /\ SameText(merged[i], t)
                /\ merged[i].left = t.left
                /\ merged[i].width = t.width
                /\ IF c.retry
                   THEN TruncatedScale(merged[i].top - c.y, t.top, StripH(c), c.rh)
                   ELSE merged[i].top = c.y + t.top
    /\ (~Tiled /\ pcT = "done") => returned.data = calls[1].data

(* C10 as amended: the same, but in a strip that was downscaled left,      *)
(* width and height are scaled back by the strip size over the downscaled  *)
(* size and truncated, like top; they are verbatim in every other strip.   *)
C10_MergedIsOffsetConcatenation ==
    /\ Tiled =>
        LET src == Sources(OkCalls)
        IN  /\ Len(merged) = Len(src)
            /\ \A i \in 1..Len(merged) :
                LET c == src[i].call
                    t == src[i].raw
                    m == merged[i]
                IN  /\ SameText(m, t)
                    /\ \A j \in 1..Len(merged) : i < j => c.y <= src[j].call.y
                    /\ IF c.retry
                       THEN /\ TruncatedScale(m.left, t.left, imgW, c.rw)
                            /\ TruncatedScale(m.width, t.width, imgW, c.rw)
                            /\ TruncatedScale(m.height, t.height, StripH(c), c.rh)
                            /\ TruncatedScale(m.top - c.y, t.top, StripH(c), c.rh)
                       ELSE /\ m.left = t.left
                            /\ m.width = t.width
                            /\ m.height = t.height
                            /\ m.top = c.y + t.top
            /\ pcT = "done" => returned = Value(merged)
    /\ (~Tiled /\ pcT = "done") =>
        /\ Len(calls) = 1
        /\ returned = Value(calls[1].data)

(* C10 witness: a finished tiled run whose second strip was downscaled and *)
(* gave a token, after a first strip that gave one too.                    *)
C10_Witness ==
    /\ Tiled
    /\ pcT = "done"
    /\ Len(merged) >= 2
    /\ \E i \in 1..Len(merged) :
        /\ OkCalls[CallOf(i)].retry
        /\ OkCalls[CallOf(i)].y > 0
        /\ merged[i].left # RawOf(i).left
        /\ merged[i].top >= OkCalls[CallOf(i)].y

(* Whether every record of the stream lies inside the image.               *)
InsideImage(t) ==
    /\ 0 <= t.left /\ 0 <= t.top /\ 0 <= t.width /\ 0 <= t.height
    /\ t.left + t.width <= imgW
    /\ t.top + t.height <= imgH

(* C3: every RedactionBox returned by detect_sensitive_regions has 0 <= x, *)
(* 0 <= y, x + w <= imageWidth and y + h <= imageHeight, whenever the      *)
(* token boxes lie inside the image and the padding is >= 0.               *)
C3_BoxesInsideImage ==
    (/\ detected.state = "returned"
     /\ detected.mask_padding >= 0
     /\ \A i \in 1..Len(returned.data) : InsideImage(returned.data[i])) =>
        \A k \in 1..Len(detected.redactions) :
            LET r == detected.redactions[k]
            IN  /\ 0 <= r.x
                /\ 0 <= r.y
                /\ r.x + r.w <= imgW
                /\ r.y + r.h <= imgH

-----------------------------------------------------------------------------
(* apply_redactions (ocr_mask.py:159-167).  An image is its shape and the  *)
(* value of every pixel <<column, row>>.                                   *)
Pixels(w, h) == (0..(w - 1)) \X (0..(h - 1))
Image(w, h, f) == [w |-> w, h |-> h, px |-> f]

(* cv2.rectangle(img, pt1, pt2, color, thickness=-1): fills the rectangle  *)
(* whose opposite corners are pt1 and pt2, both corners included, in       *)
(* whichever order they come, clipped to the image.                        *)
RectanglePixels(img, x1, y1, x2, y2) ==
    { p \in Pixels(img.w, img.h) :
        /\ Min(x1, x2) <= p[1] /\ p[1] <= Max(x1, x2)
        /\ Min(y1, y2) <= p[2] /\ p[2] <= Max(y1, y2) }

MutRectangle(img, x1, y1, x2, y2, color) ==
    [img EXCEPT !.px = [p \in Pixels(img.w, img.h) |->
        IF p \in RectanglePixels(img, x1, y1, x2, y2)
        THEN (IF img.px[p] = color THEN color + 1 ELSE color)
        ELSE img.px[p]]]

Rectangle(img, x1, y1, x2, y2, color) ==
    [img EXCEPT !.px = [p \in Pixels(img.w, img.h) |->
        IF p \in RectanglePixels(img, x1, y1, x2, y2) THEN color ELSE img.px[p]]]

(* Lines 162-166: the body of the loop for one box r.                      *)
FillBox(img, r, color) ==
    LET x1 == Max(r.x, 0)
        y1 == Max(r.y, 0)
        x2 == Min(r.x + r.w, img.w)
        y2 == Min(r.y + r.h, img.h)
    IN  Rectangle(img, x1, y1, x2, y2, color)

(* The whole function on a list of boxes.                                  *)
RECURSIVE FillAll(_, _, _)
FillAll(img, reds, color) ==
    IF reds = <<>> THEN img
    ELSE FillAll(FillBox(img, Head(reds), color), Tail(reds), color)

apply_redactions(img, reds, color) == FillAll(img, reds, color)

(* Inputs: one image, two fill colours, boxes whose column span and row    *)
(* span lie left of / above the image, across its edge, inside it (empty   *)
(* or not), or past its far edge.                                          *)
Spans(n) == { <<0 - 2, 1>>, <<0 - 1, 2>>, <<0, 0>>, <<0, 1>>, <<n, 1>> }
InputBoxes(w, h) ==
    { RedactionBox(sx[1], sy[1], sx[2], sy[2], "sensitive") :
        sx \in Spans(w), sy \in Spans(h) }
InputImage == Image(Side + 1, Side, [p \in Pixels(Side + 1, Side) |-> 1 + ((p[1] + p[2]) % 2)])
FillColors == {0, 1}

NoImage == Image(0, 0, <<>>)

InitRedact ==
    /\ image_bgr = InputImage
    /\ redactions \in SeqsUpTo(InputBoxes(InputImage.w, InputImage.h), MaxBoxes)
    /\ mask_color \in FillColors
    /\ out = NoImage
    /\ ri = 0
    /\ pcR = "copy"

(* Line 160.                                                               *)
CopyImage ==
    /\ pcR = "copy"
    /\ out' = image_bgr
    /\ pcR' = "loop"
    /\ UNCHANGED <<image_bgr, redactions, mask_color, ri, varsT, varsM>>

(* Lines 161-166, one turn of the loop.                                    *)
FillNext ==
    /\ pcR = "loop"
    /\ ri < Len(redactions)
    /\ out' = FillBox(out, redactions[ri + 1], mask_color)
    /\ ri' = ri + 1
    /\ UNCHANGED <<image_bgr, redactions, mask_color, pcR, varsT, varsM>>

(* Line 167.                                                               *)
ReturnOut ==
    /\ pcR = "loop"
    /\ ri = Len(redactions)
    /\ pcR' = "returned"
    /\ UNCHANGED <<image_bgr, redactions, mask_color, out, ri, varsT, varsM>>

NextRedact == CopyImage \/ FillNext \/ ReturnOut

-----------------------------------------------------------------------------
(* main (main.py:32-80) and the PatternSet file loaders it calls.  The     *)
(* lists given on the command line and in the files are one list, items,   *)
(* read as header names or as pattern strings by whichever option is used. *)
Items == {"Authorization", "auth", " "}
FileStates == {"missing", "list", "dict"}      \* no file, a JSON array, a JSON object
HeaderFileStates == FileStates \cup {"text"}   \* or newline-separated text

NoWorkbook == [exists |-> FALSE, replaced |-> {}]
NoPatternSet == [patterns |-> <<>>, built |-> FALSE]
Built(ps) == [patterns |-> ps.patterns, built |-> TRUE]

(* [s.strip() for s in x.split(',') if s.strip()] (lines 43, 47).          *)
RECURSIVE SplitStrip(_)
SplitStrip(items) ==
    IF items = <<>> THEN <<>>
    ELSE (IF Strip(Head(items)) = "" THEN <<>> ELSE <<Strip(Head(items))>>)
         \o SplitStrip(Tail(items))

(* A list of strings given as explicit regexes.                            *)
AsPatterns(items) == [i \in 1..Len(items) |-> RawPattern(items[i])]

(* PatternSet.from_file (lines 32-40): open() raises when the file is      *)
(* missing; an array is the list, an object gives its "patterns".          *)
from_file(state, items) ==
    IF state = "missing" THEN [raised |-> "FileNotFoundError"]
    ELSE [raised |-> "", value |-> from_strings(AsPatterns(items))]

(* PatternSet.from_headers_file (lines 66-86): a missing file is caught    *)
(* and gives no headers; text that is not JSON is split into its non-blank *)
(* lines, stripped.                                                        *)
from_headers_file(state, items, include_defaults) ==
    LET headers == CASE state = "missing" -> <<>>
                     [] state = "text" -> SplitStrip(items)
                     [] OTHER -> items
    IN  from_headers(headers, include_defaults)

InitMain ==
    /\ args \in [patterns_file : {"None"} \cup FileStates,
                 patterns : BOOLEAN,
                 headers_file : {"None"} \cup HeaderFileStates,
                 headers : BOOLEAN,
                 include_default_headers : BOOLEAN,
                 items : SeqsUpTo(Items, MaxItems)]
    /\ pattern_set = NoPatternSet
    /\ extracted = <<>>
    /\ replacements = <<>>
    /\ report = <<>>
    /\ workbook = NoWorkbook
    /\ pcM = "patterns"

(* A comma-joined option is truthy when the joined string is not empty.    *)
Given(flag) == flag /\ args.items # <<>>

(* Lines 40-41, with the file missing: from_file raises, main ends.        *)
BuildPatternsRaises ==
    /\ pcM = "patterns"
    /\ args.patterns_file # "None"
    /\ from_file(args.patterns_file, args.items).raised # ""
    /\ pcM' = "raised"
    /\ UNCHANGED <<args, pattern_set, extracted, replacements, report, workbook>>
    /\ UNCHANGED <<varsT, varsR>>

(* Lines 40-49: the first option given decides the PatternSet.             *)
BuildPatterns ==
    /\ pcM = "patterns"
    /\ IF args.patterns_file # "None"
       THEN /\ from_file(args.patterns_file, args.items).raised = ""
            /\ pattern_set' = Built(from_file(args.patterns_file, args.items).value)
       ELSE IF Given(args.patterns)
       THEN pattern_set' = Built(from_strings(AsPatterns(SplitStrip(args.items))))
       ELSE IF args.headers_file # "None"
       THEN pattern_set' = Built(from_headers_file(args.headers_file, args.items,
                                                   args.include_default_headers))
       ELSE IF Given(args.headers)
       THEN pattern_set' = Built(from_headers(SplitStrip(args.items),
                                              args.include_default_headers))
       ELSE pattern_set' = Built(default)
    /\ pcM' = "extract"
    /\ UNCHANGED <<args, extracted, replacements, report, workbook>>
    /\ UNCHANGED <<varsT, varsR>>

(* Line 54: extract_images gives the images found, each with its own id.   *)
ExtractImages ==
    /\ pcM = "extract"
    /\ \E n \in 0..MaxImages : extracted' = [i \in 1..n |-> i]
    /\ pcM' = "mask"
    /\ UNCHANGED <<args, pattern_set, replacements, report, workbook>>
    /\ UNCHANGED <<varsT, varsR>>

(* Lines 59-71, one image: mask_image_file returns, the replacement and    *)
(* the report entry are recorded.                                          *)
MaskImage ==
    /\ pcM = "mask"
    /\ Len(report) < Len(extracted)
    /\ LET item == extracted[Len(report) + 1]
       IN  /\ replacements' = Append(replacements, <<item, "masked">>)
           /\ report' = Append(report, [image_id |-> item, masked |-> "masked"])
    /\ UNCHANGED <<args, pattern_set, extracted, workbook, pcM>>
    /\ UNCHANGED <<varsT, varsR>>

MutMaskImageRaises ==
    /\ pcM = "mask"
    /\ Len(report) < Len(extracted)
    /\ report' = Append(report, [image_id |-> extracted[Len(report) + 1], masked |-> "failed"])
    /\ UNCHANGED <<args, pattern_set, extracted, replacements, workbook, pcM>>
    /\ UNCHANGED <<varsT, varsR>>

(* Line 60: mask_image_file raises; nothing in main catches it.            *)
MaskImageRaises ==
    /\ pcM = "mask"
    /\ Len(report) < Len(extracted)
    /\ pcM' = "raised"
    /\ UNCHANGED <<args, pattern_set, extracted, replacements, report, workbook>>
    /\ UNCHANGED <<varsT, varsR>>

(* Lines 73-74: after the loop, write_masked_images saves the workbook     *)
(* with the replacements (excel_io.py:126-155).                            *)
WriteBack ==
    /\ pcM = "mask"
    /\ Len(report) = Len(extracted)
    /\ workbook' = [exists |-> TRUE,
                    replaced |-> {replacements[i][1] : i \in 1..Len(replacements)}]
    /\ pcM' = "written"
    /\ UNCHANGED <<args, pattern_set, extracted, replacements, report>>
    /\ UNCHANGED <<varsT, varsR>>

(* excel_io.py:154: os.makedirs raises for an output path it cannot make   *)
(* a directory for, before anything is saved.                              *)
WriteBackRaises ==
    /\ pcM = "mask"
    /\ Len(report) = Len(extracted)
    /\ pcM' = "raised"
    /\ UNCHANGED <<args, pattern_set, extracted, replacements, report, workbook>>
    /\ UNCHANGED <<varsT, varsR>>

NextMain ==
    \/ BuildPatternsRaises
    \/ BuildPatterns
    \/ ExtractImages
    \/ MaskImage
    \/ MaskImageRaises
    \/ WriteBack
    \/ WriteBackRaises

IdleTiling ==
    /\ imgH = 1 /\ imgW = 1 /\ max_tile_height = 1 /\ overlap = 0
    /\ y = 0 /\ tile_idx = 0 /\ step = 0 /\ merged = <<>>
    /\ pcT = "idle" /\ returned = NoReturn /\ calls = <<>> /\ detected = NotDetected

IdleRedact ==
    /\ image_bgr = NoImage /\ redactions = <<>> /\ mask_color = 0
    /\ out = NoImage /\ ri = 0 /\ pcR = "idle"

IdleMain ==
    /\ args = [patterns_file |-> "None", patterns |-> FALSE, headers_file |-> "None",
               headers |-> FALSE, include_default_headers |-> FALSE, items |-> <<>>]
    /\ pattern_set = NoPatternSet /\ extracted = <<>> /\ replacements = <<>>
    /\ report = <<>> /\ workbook = NoWorkbook /\ pcM = "idle"

InitOcr == InitTiling /\ IdleRedact /\ IdleMain
SpecTiling == InitOcr /\ [][NextTiling]_vars

InitApply == InitRedact /\ IdleTiling /\ IdleMain
SpecRedact == InitApply /\ [][NextRedact]_vars

InitBatch == InitMain /\ IdleTiling /\ IdleRedact
SpecMain == InitBatch /\ [][NextMain]_vars

(* C6: apply_redactions leaves its input buffer as it was and returns an   *)
(* image in which every pixel outside all the rectangles                   *)
(* [x, x+w) x [y, y+h) has the value it had in the input; zero-size boxes  *)
(* and boxes wholly outside the image change no pixel.                     *)
InBox(p, r) ==
    /\ r.x <= p[1] /\ p[1] < r.x + r.w
    /\ r.y <= p[2] /\ p[2] < r.y + r.h

C6_PixelsOutsideBoxesKept ==
    pcR = "returned" =>
        /\ image_bgr = InputImage
        /\ out.w = image_bgr.w /\ out.h = image_bgr.h
        /\ \A p \in Pixels(out.w, out.h) :
            (\A k \in 1..Len(redactions) : ~InBox(p, redactions[k]))
                => out.px[p] = image_bgr.px[p]

(* C7: apply_redactions is idempotent and order-independent: applying the  *)
(* list again to the result, applying it with a box repeated, and applying *)
(* any permutation of it, all give the image the call returned.            *)
Permuted(reds, f) == [i \in 1..Len(reds) |-> reds[f[i]]]

C7_IdempotentOrderIndependent ==
    pcR = "returned" =>
        /\ apply_redactions(out, redactions, mask_color) = out
        /\ \A k \in 1..Len(redactions) :
            /\ apply_redactions(image_bgr, Append(redactions, redactions[k]), mask_color) = out
            /\ apply_redactions(image_bgr, <<redactions[k]>> \o redactions, mask_color) = out
        /\ \A f \in Permutations(1..Len(redactions)) :
            apply_redactions(image_bgr, Permuted(redactions, f), mask_color) = out

(* C7 witness: two different boxes that both paint pixels were applied.    *)
C7_Witness ==
    /\ pcR = "returned"
    /\ Len(redactions) >= 2
    /\ redactions[1] # redactions[2]
    /\ \A k \in 1..2 : FillBox(image_bgr, redactions[k], mask_color) # image_bgr
    /\ out # image_bgr

-----------------------------------------------------------------------------
(* C5: images are masked one after another in extraction order; the output *)
(* workbook is written only after every extracted image was masked; when   *)
(* masking an image fails the run stops there and no workbook is written.  *)
C5_WorkbookOnlyAfterAllMasked ==
    /\ Len(report) <= Len(extracted)
    /\ Len(replacements) = Len(report)
    /\ \A i \in 1..Len(report) :
        /\ report[i].image_id = extracted[i]
        /\ report[i].masked = "masked"
        /\ replacements[i][1] = extracted[i]
    /\ workbook.exists =>
        /\ pcM = "written"
        /\ Len(report) = Len(extracted)
        /\ workbook.replaced = {extracted[i] : i \in 1..Len(extracted)}
    /\ pcM = "raised" => workbook = NoWorkbook

(* C5 witness: masking failed on a later image after an earlier one had    *)
(* been masked, and there is no workbook.                                  *)
C5_Witness ==
    /\ pcM = "raised"
    /\ pattern_set.built
    /\ Len(report) >= 1
    /\ Len(report) < Len(extracted)
    /\ workbook = NoWorkbook

(* C8: a PatternSet from any constructor holds no two patterns with the    *)
(* same source string (first occurrences, in order): [a, b, a] gives       *)
(* [a, b].                                                                 *)
C8_NoDuplicatePatterns ==
    pattern_set.built =>
        \A i, j \in 1..Len(pattern_set.patterns) :
            i < j => pattern_set.patterns[i].pattern # pattern_set.patterns[j].pattern

(* C9: a headers file or a patterns file that does not exist raises no     *)
(* error; it is read as an empty list, so that without include-defaults    *)
(* the PatternSet is empty and find_matches finds nothing in any text.     *)
Texts == SeqsUpTo({"Authorization:", "Bearer", "abc", "Host:"}, 2)

MissingFileChosen ==
    \/ args.patterns_file = "missing"
    \/ /\ args.patterns_file = "None"
       /\ ~Given(args.patterns)
       /\ args.headers_file = "missing"

C9_MissingFileIsEmptyList ==
    (pcM # "patterns" /\ MissingFileChosen) =>
        /\ pattern_set.built
        /\ (args.patterns_file = "missing" \/ ~args.include_default_headers) =>
            /\ pattern_set.patterns = <<>>
            /\ \A text \in Texts : find_matches(pattern_set, text) = <<>>

-----------------------------------------------------------------------------
(* detect_sensitive_regions on an image no taller than max_tile_height:    *)
(* the word-level OCR is the one whole-image call (lines 33-34), and its   *)
(* rows are any the oracle may give: words of a line a pattern matches,    *)
(* words of one it does not, a row with conf -1 and a row of blank text.   *)
MaxWords == 4        \* rows the oracle returns for the image

WordsImageW == 120
WordsImageH == 50

OracleRows ==
    { Token(1, 1, 1, 10, 20, 40, 20, 90, "Authorization:"),
      Token(1, 1, 1, 60, 22, 50, 18, 90, "abc"),
      Token(1, 1, 2, 50, 2, 40, 10, 90, "Bearer"),
      Token(1, 1, 2, 10, 2, 30, 10, 90, "abc"),
      Token(1, 1, 2, 95, 2, 20, 10, -1, "Authorization:"),
      Token(1, 1, 1, 0, 0, WordsImageW, WordsImageH, 90, " ") }

InitWords ==
    /\ imgH = WordsImageH
    /\ imgW = WordsImageW
    /\ max_tile_height = SetMax(TileHeights)
    /\ overlap = 0
    /\ y = 0
    /\ tile_idx = 0
    /\ step = 0
    /\ merged = <<>>
    /\ pcT = "start"
    /\ returned = NoReturn
    /\ calls = <<>>
    /\ detected = NotDetected

(* Lines 33-34 with the rows above as the oracle's answer.                 *)
WholeImageRows ==
    /\ pcT = "start"
    /\ imgH <= max_tile_height
    /\ \E data \in SeqsUpTo(OracleRows, MaxWords) :
        /\ calls' = Append(calls, CallRec(0, imgH, imgW, imgH, FALSE, "ok", data))
        /\ returned' = Value(data)
    /\ pcT' = "done"
    /\ UNCHANGED <<y, tile_idx, step, merged>>
    /\ unchangedInputs

NextDetect ==
    \/ WholeImageRows
    \/ Detect

InitDetect == InitWords /\ IdleRedact /\ IdleMain
SpecDetect == InitDetect /\ [][NextDetect]_vars

(* C11: detect_sensitive_regions returns exactly one RedactionBox for      *)
(* every line (the non-blank rows with conf >= 0 that share a lineKey)     *)
(* whose words, joined by spaces, have a PatternSet match, and none for    *)
(* any other line; the box is x = max(min(left) - padding, 0),             *)
(* y = max(min(top) - padding, 0), w = max(left + width) + padding - x,    *)
(* h = max(top + height) + padding - y over the line's rows, labelled      *)
(* "sensitive".                                                            *)
C11_OneBoxPerMatchingLine ==
    detected.state = "returned" =>
        LET data == returned.data
            pad == detected.mask_padding
            InLine(t) == t.text \notin {"", " "} /\ t.conf >= 0
            keys == {LineKey(data[i]) : i \in {j \in 1..Len(data) : InLine(data[j])}}
            rows(k) == SelectSeq(data, LAMBDA t : InLine(t) /\ LineKey(t) = k)
            words(k) == [i \in 1..Len(rows(k)) |-> rows(k)[i].text]
            matching == {k \in keys : find_matches(detected.patterns, words(k)) # <<>>}
            rowset(k) == {rows(k)[i] : i \in 1..Len(rows(k))}
            bx(k) == Max(SetMin({t.left : t \in rowset(k)}) - pad, 0)
            by(k) == Max(SetMin({t.top : t \in rowset(k)}) - pad, 0)
            box(k) == [x |-> bx(k), y |-> by(k),
                       w |-> SetMax({t.left + t.width : t \in rowset(k)}) + pad - bx(k),
                       h |-> SetMax({t.top + t.height : t \in rowset(k)}) + pad - by(k),
                       label |-> "sensitive"]
            n == Len(detected.redactions)
        IN  /\ n = Cardinality(matching)
            /\ \E f \in [1..n -> matching] :
                /\ \A i, j \in 1..n : f[i] = f[j] => i = j
                /\ \A i \in 1..n : detected.redactions[i] = box(f[i])

(* C11 witness: with padding 4, the rows spanning (10,20)-(110,40) of the  *)
(* matched line give the one box (6, 16, 108, 28), although the oracle     *)
(* also returned a blank row and a row with conf < 0.                      *)
C11_Witness ==
    /\ detected.state = "returned"
    /\ detected.mask_padding = 4
    /\ detected.redactions = <<[x |-> 6, y |-> 16, w |-> 108, h |-> 28, label |-> "sensitive"]>>
    /\ \E i \in 1..Len(returned.data) : returned.data[i].conf < 0
    /\ \E i \in 1..Len(returned.data) : returned.data[i].text = " "
    /\ \E i, j \in 1..Len(returned.data) :
        LineKey(returned.data[i]) = LineKey(returned.data[j]) /\ i # j
           /\ returned.data[i].conf >= 0 /\ returned.data[j].conf >= 0
           /\ returned.data[i].text = "abc" /\ returned.data[j].text = "Authorization:"

(* C12: every region handed to the oracle, the downscaled copy of a retry  *)
(* included, is at most max_tile_height rows high; every strip is a row    *)
(* range [y, y2) with y2 <= image height; and the last strip of a finished *)
(* run ends exactly at the image bottom.                                   *)
C12_RegionsWithinTileHeight ==
    /\ \A i \in 1..Len(calls) :
        /\ calls[i].rh <= max_tile_height
        /\ calls[i].y < calls[i].y2
        /\ calls[i].y2 <= imgH
    /\ (Tiled /\ pcT = "done") => Strips[Len(Strips)].y2 = imgH

-----------------------------------------------------------------------------
(* Termination of the tiling loop.  The function runs sequentially and     *)
(* every oracle call returns or fails, so a step that can be taken is      *)
(* taken: weak fairness on the next-state relation.                        *)
LoopHeights == {1, 501, 1000, 1001, 2001, 3001}

InitLoop ==
    /\ imgH \in LoopHeights
    /\ imgW \in ImageWidths
    /\ max_tile_height \in TileHeights
    /\ overlap \in Overlaps
    /\ y = 0
    /\ tile_idx = 0
    /\ step = 0
    /\ merged = <<>>
    /\ pcT = "start"
    /\ returned = NoReturn
    /\ calls = <<>>
    /\ detected = NotDetected

InitFair == InitLoop /\ IdleRedact /\ IdleMain
SpecTilingFair == InitFair /\ [][NextTiling]_vars /\ WF_vars(NextTiling)

LoopOver == pcT \in {"done", "raised"}

(* An iteration has ended and the loop goes round again.                   *)
NextIteration == pcT \in {"loop", "retry"} /\ pcT' = "loop"

(* Strip i ends at the image bottom or below it.                           *)
ReachesBottom(i) == Strips[i].y2 >= imgH

(* The strips so far start at 0, step, 2*step, ..., all above the bottom.  *)
OneStripPerStep ==
    (Tiled /\ pcT # "start") =>
        /\ \A i \in 1..Len(Strips) : Strips[i].y = (i - 1) * step
        /\ Len(Strips) * step < imgH + step

====
